---- MODULE Spec2Model ----
(***************************************************************************)
(* A model of the scoring-and-ranking core of the resume screening agent:  *)
(*   JDMatcher       (src/jd_matcher.py)     similarity, judgment parsing   *)
(*   RankingEngine   (src/ranking_engine.py) weighted score and ordering    *)
(*   ResumeProcessor (src/resume_processor.py) features of a resume text    *)
(*   the API         (src/main.py)           the globals and the handlers   *)
(*                                                                         *)
(* Numbers.  Python floats are modelled in fixed point:                    *)
(*   - a cosine similarity is an integer number of ticks of 1/SimScale,    *)
(*   - an unrounded final score is an integer number of thousandths,       *)
(*   - a rounded score (round(x, 2)) is an integer number of hundredths.   *)
(* A float is a record [nan, v]; NaN is the float with nan = TRUE.         *)
(*                                                                         *)
(* Text.  A line is a sequence of characters; each of the four labels      *)
(* ("Score:", "Strengths:", "Missing:", "Recommendation:") is one element  *)
(* of a line, so that startswith(label) is a test of the first element.    *)
(* A response is the sequence of lines that response.split('\n') yields.   *)
(***************************************************************************)
EXTENDS Integers, Sequences, FiniteSets, TLC

VARIABLES
    score_in,       \* arguments of the _calculate_final_score call under check
    final_score,    \* its return value (thousandths), or NotRun
    response,       \* the text handed to _parse_llm_response
    parsed,         \* its outcome: a verdict, or a raised ValueError, or NotRun
    vector_store,   \* JDMatcher.vector_store: None or the stored JD embedding
    sim_log,        \* the calculate_similarity calls made so far, with their outcomes
    resumes,        \* the batch handed to rank_resumes
    runs,           \* outcomes of the rank_resumes calls made so far, in order
    text,           \* the resume text handed to ResumeProcessor.parse_resume
    resume_data,    \* the dictionary it returns, or NotRun
    current_jd,     \* main.py's global current_jd
    jd_matcher,     \* main.py's global jd_matcher
    ranking_engine, \* main.py's global ranking_engine
    set_calls,      \* the number of set_job_description requests made so far
    files,          \* the process_resumes request in progress, or NotRun
    api_log         \* the process_resumes requests answered so far, in order

vars == <<score_in, final_score, response, parsed, vector_store, sim_log,
          resumes, runs, text, resume_data, current_jd, jd_matcher,
          ranking_engine, set_calls, files, api_log>>

scoreVars  == <<score_in, final_score>>
parseVars  == <<response, parsed>>
simVars    == <<sim_log>>
rankVars   == <<resumes, runs>>
extractVars == <<text, resume_data>>
apiVars    == <<current_jd, jd_matcher, ranking_engine, set_calls, files, api_log>>

NotRun == [kind |-> "NotRun"]

----------------------------------------------------------------------------
(* Bounds of the model *)

MaxBatch == 3       \* resumes in a batch
MaxRuns == 2        \* rank_resumes calls in a behaviour
MaxLines == 3       \* lines of an enumerated response
MaxSimCalls == 2    \* calculate_similarity calls in a behaviour
MaxLlmScore == 110  \* llm_score arguments run over 0..MaxLlmScore
MaxSkills == 24     \* skills_count arguments run over 0..MaxSkills, and 1000
MaxTextLen == 5     \* characters of an enumerated text
MaxPhrases == 3     \* phrases of a composed text
MaxSets == 3        \* set_job_description requests in a behaviour
MaxRequests == 2    \* process_resumes requests in a behaviour
MaxUploads == 2     \* uploads of a process_resumes request

----------------------------------------------------------------------------
(* Fixed-point floats *)

SimScale == 10^4

Num(x) == [nan |-> FALSE, v |-> x]
NaN == [nan |-> TRUE, v |-> 0]

\* Python's < on floats: every comparison with NaN is False.
FLess(a, b) == ~a.nan /\ ~b.nan /\ a.v < b.v

Min(a, b) == IF a <= b THEN a ELSE b
Abs(x) == IF x < 0 THEN -x ELSE x

\* round(x, 2) of a value given in thousandths, as hundredths (half to even).
Round2(x) ==
    IF x.nan THEN NaN
    ELSE LET q == x.v \div 10
             r == x.v % 10
         IN  Num(IF r < 5 THEN q
                 ELSE IF r > 5 THEN q + 1
                 ELSE IF q % 2 = 0 THEN q ELSE q + 1)

----------------------------------------------------------------------------
(* RankingEngine._calculate_final_score *)

WeightLlm == 5         \* weights['llm_score']  = 0.5, in tenths
WeightSimilarity == 3  \* weights['similarity'] = 0.3, in tenths
WeightSkills == 2      \* weights['skills']     = 0.2, in tenths
SkillsCap == 20        \* min(skills_count / 20, 1.0)

\* normalized_skills = min(skills_count / 20, 1.0) * 100, in thousandths.
\* First the same without the min.
NormalizedSkillsDropCap(skills_count) == (skills_count * 100 * 1000) \div SkillsCap

\* The same with the floor division skills_count // 20.
NormalizedSkillsFloorDiv(skills_count) ==
    Min((skills_count \div SkillsCap) * 100 * 1000, 100 * 1000)

NormalizedSkills(skills_count) ==
    Min((skills_count * 100 * 1000) \div SkillsCap, 100 * 1000)

\* The weighted sum, in thousandths.  similarity is a float in ticks; a weight
\* in tenths times a value in thousandths is divided by 10 (for the similarity
\* term, 100 * 1000 / 10 is written 100 * 100).
CalculateFinalScore(llm_score, similarity, skills_count) ==
    IF similarity.nan THEN NaN
    ELSE Num( (WeightLlm * llm_score * 1000) \div 10
            + (WeightSimilarity * similarity.v * 100 * 100) \div SimScale
            + (WeightSkills * NormalizedSkills(skills_count)) \div 10 )

----------------------------------------------------------------------------
(* JDMatcher._parse_llm_response and JDMatcher._extract_bullet_points *)

Labels == {"Score:", "Strengths:", "Missing:", "Recommendation:"}
Whitespace == {" ", "\t"}
Digits == {"0", "1", "2", "3", "4", "5", "6", "7", "8", "9"}

\* The bullet glyph of the source is the three characters of a mis-decoded
\* U+2022; they are written here as "g1", "g2", "g3".
Glyph == <<"g1", "g2", "g3">>

DigitValue(c) ==
    CASE c = "0" -> 0 [] c = "1" -> 1 [] c = "2" -> 2 [] c = "3" -> 3
      [] c = "4" -> 4 [] c = "5" -> 5 [] c = "6" -> 6 [] c = "7" -> 7
      [] c = "8" -> 8 [] c = "9" -> 9

RECURSIVE LStrip(_)
LStrip(line) ==
    IF line # <<>> /\ Head(line) \in Whitespace THEN LStrip(Tail(line)) ELSE line

RECURSIVE RStrip(_)
RStrip(line) ==
    IF line # <<>> /\ line[Len(line)] \in Whitespace
    THEN RStrip(SubSeq(line, 1, Len(line) - 1))
    ELSE line

\* str.strip()
Strip(line) == RStrip(LStrip(line))

\* str.startswith(prefix), prefix a sequence of characters
StartsWith(line, prefix) ==
    Len(line) >= Len(prefix) /\ SubSeq(line, 1, Len(prefix)) = prefix

StartsWithLabel(line) == \E l \in Labels : StartsWith(line, <<l>>)

\* re.search(r'(\d+)', line): the first maximal run of digits, or <<>> (no match)
RECURSIVE DigitRun(_)
DigitRun(line) ==
    IF line = <<>> \/ Head(line) \notin Digits THEN <<>>
    ELSE <<Head(line)>> \o DigitRun(Tail(line))

RECURSIVE FirstDigitRun(_)
FirstDigitRun(line) ==
    IF line = <<>> THEN <<>>
    ELSE IF Head(line) \in Digits THEN DigitRun(line)
    ELSE FirstDigitRun(Tail(line))

\* int(digits)
RECURSIVE IntOf(_)
IntOf(digits) ==
    IF digits = <<>> THEN 0
    ELSE 10 * IntOf(SubSeq(digits, 1, Len(digits) - 1)) + DigitValue(digits[Len(digits)])

\* list.index(x): the first position of x, 0 when x is not in the list
\* (Python raises ValueError there).
ListIndex(lines, x) ==
    IF \E i \in 1..Len(lines) : lines[i] = x
    THEN CHOOSE i \in 1..Len(lines) :
            lines[i] = x /\ \A j \in 1..(i - 1) : lines[j] # x
    ELSE 0

\* One collected line: the marker test and line[1:].strip()
BulletOf(line) ==
    IF StartsWith(line, <<"-">>) \/ StartsWith(line, Glyph) \/ StartsWith(line, <<"*">>)
    THEN Strip(Tail(line))
    ELSE line

\* _extract_bullet_points(lines, start_index): the loop from position i on
\* (positions are 1-based here, so the loop starts at start_index + 1).
RECURSIVE BulletLoop(_, _)
BulletLoop(lines, i) ==
    IF i > Len(lines) THEN <<>>
    ELSE LET line == Strip(lines[i])
         IN  IF line = <<>> THEN BulletLoop(lines, i + 1)
             ELSE IF StartsWithLabel(line) THEN <<>>
             ELSE <<BulletOf(line)>> \o BulletLoop(lines, i + 1)

ExtractBulletPoints(lines, start_index) == BulletLoop(lines, start_index + 1)

\* str.replace('Recommendation:', '').strip()
RecommendationOf(line) ==
    Strip(SelectSeq(line, LAMBDA c : c # "Recommendation:"))

DefaultVerdict ==
    [kind |-> "Verdict", score |-> 0, strengths |-> <<>>, missing |-> <<>>,
     recommendation |-> <<"Maybe">>]

ValueError == [kind |-> "ValueError"]

\* The position handed to _extract_bullet_points for a (stripped) label line:
\* lines.index(line) searches the unstripped lines for the stripped line.
LabelIndex(lines, i) == ListIndex(lines, Strip(lines[i]))

\* The body of the for loop of _parse_llm_response for line i, on the result
\* so far; a ValueError ends the call.
ParseLine(lines, i, result) ==
    LET line == Strip(lines[i])
    IN  IF StartsWith(line, <<"Score:">>) THEN
            IF FirstDigitRun(line) # <<>>
            THEN [result EXCEPT !.score = IntOf(FirstDigitRun(line))]
            ELSE result
        ELSE IF StartsWith(line, <<"Strengths:">>) THEN
            IF LabelIndex(lines, i) = 0 THEN ValueError
            ELSE [result EXCEPT
                    !.strengths = ExtractBulletPoints(lines, LabelIndex(lines, i))]
        ELSE IF StartsWith(line, <<"Missing:">>) THEN
            IF LabelIndex(lines, i) = 0 THEN ValueError
            ELSE [result EXCEPT
                    !.missing = ExtractBulletPoints(lines, LabelIndex(lines, i))]
        ELSE IF StartsWith(line, <<"Recommendation:">>) THEN
            [result EXCEPT !.recommendation = RecommendationOf(line)]
        ELSE result

RECURSIVE ParseFrom(_, _, _)
ParseFrom(lines, i, result) ==
    IF i > Len(lines) THEN result
    ELSE LET r == ParseLine(lines, i, result)
         IN  IF r.kind = "ValueError" THEN r ELSE ParseFrom(lines, i + 1, r)

\* _parse_llm_response(response), response already split into lines
ParseLlmResponse(lines) == ParseFrom(lines, 1, DefaultVerdict)

----------------------------------------------------------------------------
(* JDMatcher: create_jd_embedding, calculate_similarity, _cosine_similarity *)

RECURSIVE Dot(_, _)
Dot(a, b) ==
    IF a = <<>> THEN 0 ELSE Head(a) * Head(b) + Dot(Tail(a), Tail(b))

\* The integer square root; it is the square root on the embeddings of the
\* model, whose norms are integers.
ISqrt(n) == CHOOSE r \in 0..n : r * r <= n /\ n < (r + 1) * (r + 1)

\* np.linalg.norm
Norm(a) == ISqrt(Dot(a, a))

\* np.dot(a, b) / (np.linalg.norm(a) * np.linalg.norm(b)) in ticks.  numpy's
\* float division 0.0 / 0.0 yields nan (with a RuntimeWarning), not an exception.
CosineSimilarity(a, b) ==
    IF Norm(a) * Norm(b) = 0 THEN NaN
    ELSE LET d == Dot(a, b)
             q == (Abs(d) * SimScale) \div (Norm(a) * Norm(b))
         IN  Num(IF d < 0 THEN -q ELSE q)

\* self.vector_store
None == [kind |-> "None", embedding |-> <<>>]
Chroma(embedding) == [kind |-> "Chroma", embedding |-> embedding]

\* A response of the external embedding service: a vector, or a failure.
EmbedOk(vec) == [ok |-> TRUE, vec |-> vec]
EmbedFailure == [ok |-> FALSE, vec |-> <<>>]

\* calculate_similarity(resume_text) on a matcher whose vector_store is store,
\* when embed_query answers embed.  kind is "Value" for a returned float,
\* otherwise the exception raised; embed_called tells whether embed_query
\* was issued.
SimOutcome(kind, embed_called, value) ==
    [kind |-> kind, embed_called |-> embed_called, value |-> value]

\* The same with the vector_store test after the embed_query call.
CalculateSimilarityLateGuard(store, embed) ==
    IF ~embed.ok THEN SimOutcome("ExternalServiceError", TRUE, NaN)
    ELSE IF store.kind = "None" THEN SimOutcome("PreconditionError", TRUE, NaN)
    ELSE SimOutcome("Value", TRUE, CosineSimilarity(embed.vec, store.embedding))

CalculateSimilarity(store, embed) ==
    IF store.kind = "None" THEN SimOutcome("PreconditionError", FALSE, NaN)
    ELSE IF ~embed.ok THEN SimOutcome("ExternalServiceError", TRUE, NaN)
    ELSE SimOutcome("Value", TRUE, CosineSimilarity(embed.vec, store.embedding))

----------------------------------------------------------------------------
(* JDMatcher.analyze_fit *)

\* A response of the external completion service: a text (as lines), or a failure.
LlmOk(lines) == [ok |-> TRUE, lines |-> lines]
LlmFailure == [ok |-> FALSE, lines |-> <<>>]

ExternalServiceError == [kind |-> "ExternalServiceError"]

\* analyze_fit(resume_data, job_description), when llm.predict answers llm:
\* a verdict, or the exception raised.
AnalyzeFit(llm) ==
    IF ~llm.ok THEN ExternalServiceError ELSE ParseLlmResponse(llm.lines)

----------------------------------------------------------------------------
(* list.sort(key = final_score, reverse = True), as CPython sorts a list of  *)
(* fewer than 64 elements: the list is reversed, sorted ascending by        *)
(* count_run and binary insertion (comparing keys with < only), and         *)
(* reversed again.                                                           *)

Key(entry) == entry.final_score

RECURSIVE Reverse(_)
Reverse(s) == IF s = <<>> THEN <<>> ELSE Reverse(Tail(s)) \o <<Head(s)>>

\* count_run: the length of the run that starts the list; a strictly
\* descending run is reversed in place.
RECURSIVE RunEnd(_, _, _)
RunEnd(s, n, descending) ==
    IF n >= Len(s) THEN n
    ELSE IF descending
         THEN IF FLess(Key(s[n + 1]), Key(s[n])) THEN RunEnd(s, n + 1, descending) ELSE n
         ELSE IF FLess(Key(s[n + 1]), Key(s[n])) THEN n ELSE RunEnd(s, n + 1, descending)

\* binarysort: where the pivot goes among s[l..r-1], the rightmost place that
\* keeps equal keys in order.
RECURSIVE InsertionPoint(_, _, _, _)
InsertionPoint(s, pivot, l, r) ==
    IF l >= r THEN l
    ELSE LET p == l + ((r - l) \div 2)
         IN  IF FLess(Key(pivot), Key(s[p]))
             THEN InsertionPoint(s, pivot, l, p)
             ELSE InsertionPoint(s, pivot, p + 1, r)

InsertAt(s, i, x) == SubSeq(s, 1, i - 1) \o <<x>> \o SubSeq(s, i, Len(s))

\* binarysort from position start on: s[1..start-1] is sorted already.
RECURSIVE BinarySort(_, _)
BinarySort(s, start) ==
    IF start > Len(s) THEN s
    ELSE LET sorted == SubSeq(s, 1, start - 1)
             pivot  == s[start]
             at     == InsertionPoint(sorted, pivot, 1, start)
         IN  BinarySort(InsertAt(sorted, at, pivot) \o SubSeq(s, start + 1, Len(s)),
                        start + 1)

SortAscending(s) ==
    IF Len(s) < 2 THEN s
    ELSE LET descending == FLess(Key(s[2]), Key(s[1]))
             n          == RunEnd(s, 2, descending)
             withRun    == IF descending
                           THEN Reverse(SubSeq(s, 1, n)) \o SubSeq(s, n + 1, Len(s))
                           ELSE s
         IN  BinarySort(withRun, n + 1)

\* A variant that sorts ascending and reverses the result: equal keys change
\* places.
SortByFinalScoreUnstable(s) == Reverse(SortAscending(s))

SortByFinalScore(s) == Reverse(SortAscending(Reverse(s)))

----------------------------------------------------------------------------
(* RankingEngine.rank_resumes *)

\* A resume of the batch: resume['filename'], len(processed_data['skills']),
\* and what the two external services answer for it (embed_query for its
\* cleaned_text, llm.predict for its prompt).
Resume(filename, skills_count, embed, llm) ==
    [filename |-> filename, skills_count |-> skills_count, embed |-> embed, llm |-> llm]

\* similarity * 100, in thousandths
Times100(similarity) ==
    IF similarity.nan THEN NaN ELSE Num((similarity.v * 100 * 1000) \div SimScale)

\* The resume an iteration of the loop works on.
LoopResume(batch, i) == batch[i]

\* The resume whose processed_data the iteration hands to analyze_fit.
\* First a variant that keeps judging the first resume of the batch.
JudgedResumeFirst(batch, i) == batch[1]

JudgedResume(batch, i) == LoopResume(batch, i)

\* The dictionary built for one resume from its similarity and analysis.
RankedResume(resume, similarity, analysis) ==
    [filename         |-> resume.filename,
     similarity_score |-> Round2(Times100(similarity)),
     analysis         |-> analysis,
     final_score      |-> Round2(CalculateFinalScore(analysis.score, similarity,
                                                     resume.skills_count)),
     ranking_factors  |-> [llm_score            |-> analysis.score,
                           embedding_similarity |-> Times100(similarity),
                           skills_count         |-> resume.skills_count]]

Raised(error, at) == [kind |-> "Raised", error |-> error, at |-> at, ranked |-> <<>>]
Returned(ranked) == [kind |-> "Returned", error |-> "", at |-> 0, ranked |-> ranked]

\* The loop over the batch from position i on, ranked_resumes so far being acc.
\* An exception of calculate_similarity or analyze_fit is not caught: it ends
\* the call.
RECURSIVE RankLoop(_, _, _, _)
RankLoop(batch, i, acc, store) ==
    IF i > Len(batch) THEN Returned(SortByFinalScore(acc))
    ELSE LET resume   == LoopResume(batch, i)
             sim      == CalculateSimilarity(store, resume.embed)
             analysis == AnalyzeFit(JudgedResume(batch, i).llm)
         IN  IF sim.kind # "Value" THEN Raised(sim.kind, i)
             ELSE IF analysis.kind # "Verdict" THEN Raised(analysis.kind, i)
             ELSE RankLoop(batch, i + 1,
                           Append(acc, RankedResume(resume, sim.value, analysis)),
                           store)

\* ranked_resumes at the start of a call: a list kept from the call before.
RankedResumesKept ==
    IF runs # <<>> /\ runs[Len(runs)].out.kind = "Returned"
    THEN runs[Len(runs)].out.ranked
    ELSE <<>>

\* ranked_resumes = []
RankedResumesAtStart == <<>>

RankResumes(batch, store) == RankLoop(batch, 1, RankedResumesAtStart, store)

----------------------------------------------------------------------------
(* Inputs *)

\* Embeddings the external service may answer; all have integer norms.
Embeddings == {<<0, 0>>, <<1, 0>>, <<0, 1>>, <<3, 4>>, <<4, 3>>, <<5, 12>>, <<-1, 0>>}
JdEmbeddings == {<<0, 0>>, <<1, 0>>, <<3, 4>>}
RankJdEmbeddings == {<<1, 0>>, <<3, 4>>}

EmbedResponses == {EmbedFailure} \cup {EmbedOk(v) : v \in Embeddings}

\* Lines of a judgment
LineScore85     == <<"Score:", " ", "8", "5">>
LineScore85Ind  == <<" ", " ", "Score:", " ", "8", "5">>
LineScoreNone   == <<"Score:", " ", "high">>
LineScore150    == <<"Score:", " ", "1", "5", "0", "/", "1", "0", "0">>
LineStrengths   == <<"Strengths:">>
LineStrengthsB  == <<"Strengths:", " ", "-", " ", "Strong", " ", "Python", " ", "experience">>
LineStrengthsBI == <<" ", " ", "Strengths:", " ", "-", " ", "Strong", " ", "Python", " ",
                     "experience">>
LineStrengthsT  == <<"Strengths:", " ">>
LineBullet1     == <<" ", " ", "-", " ", "Good", " ", "communication", " ", "skills">>
LineMissing     == <<"Missing:">>
LineMissingBI   == <<" ", " ", "Missing:", " ", "-", " ", "Cloud", " ", "experience">>
LineBullet2     == <<" ", " ", "-", " ", "Team", " ", "leadership">>
LineBulletStar  == <<"*", "Docker">>
LineBulletGlyph == <<"g1", "g2", "g3", " ", "Kubernetes">>
LineText        == <<"Overall", " ", "a", " ", "good", " ", "fit">>
LineRecYes      == <<"Recommendation:", " ", "Yes">>
LineRecYesInd   == <<" ", " ", "Recommendation:", " ", "Yes">>
LineBlank       == <<" ", " ">>
LineEmpty       == <<>>

LinePool ==
    {LineScore85, LineScore85Ind, LineScoreNone, LineStrengths, LineStrengthsB,
     LineStrengthsBI, LineStrengthsT, LineBullet1, LineMissing, LineBulletStar,
     LineBulletGlyph, LineText, LineRecYes, LineBlank, LineEmpty, LineScore150}

\* sample_response of TestJDMatcher.test_response_parsing, split at '\n'
SampleResponse ==
    <<LineEmpty, LineScore85Ind, LineStrengthsBI, LineBullet1, LineMissingBI,
      LineBullet2, LineRecYesInd, LineBlank>>

\* The same template in four indented lines
ShortTemplate == <<LineScore85Ind, LineStrengthsBI, LineMissingBI, LineRecYesInd>>

TemplateResponses == {SampleResponse, ShortTemplate}

RECURSIVE SeqsUpTo(_, _)
SeqsUpTo(S, n) ==
    IF n = 0 THEN {<<>>}
    ELSE LET shorter == SeqsUpTo(S, n - 1)
         IN  shorter \cup {Append(t, x) : t \in {u \in shorter : Len(u) = n - 1}, x \in S}

Responses == SeqsUpTo(LinePool, MaxLines) \cup TemplateResponses

\* Judgments of the resumes of the pool
Judgment(d1, d2) ==
    <<<<"Score:", " ", d1, d2>>, LineStrengths, LineBulletStar, LineRecYes>>

ResumePool ==
    { Resume("r1", 5,  EmbedOk(<<3, 4>>),  LlmOk(Judgment("8", "0"))),
      Resume("r2", 5,  EmbedOk(<<3, 4>>),  LlmOk(Judgment("8", "0"))),
      Resume("r3", 4,  EmbedOk(<<3, 4>>),  LlmOk(Judgment("8", "2"))),
      Resume("r4", 25, EmbedOk(<<1, 0>>),  LlmOk(Judgment("9", "0"))),
      Resume("r5", 12, EmbedOk(<<5, 12>>), LlmOk(Judgment("5", "0"))),
      Resume("r6", 3,  EmbedOk(<<0, 0>>),  LlmOk(Judgment("8", "0"))),
      Resume("r7", 5,  EmbedFailure,       LlmOk(Judgment("8", "0"))),
      Resume("r8", 5,  EmbedOk(<<4, 3>>),  LlmFailure),
      Resume("r9", 5,  EmbedOk(<<4, 3>>),  LlmOk(SampleResponse)) }

Injective(s) == \A i, j \in 1..Len(s) : i # j => s[i] # s[j]

Batches == {b \in SeqsUpTo(ResumePool, MaxBatch) : Injective(b)}

LlmScores == 0..MaxLlmScore
SkillCounts == (0..MaxSkills) \cup {1000}
Similarities ==
    {NaN} \cup {Num(t) : t \in {-SimScale, -1, 0, 1, 3333, 5000, 9692, 9999,
                                SimScale, SimScale + 1}}

----------------------------------------------------------------------------
(* Actions *)

\* A call of RankingEngine._calculate_final_score on the arguments drawn.
CalculateFinalScoreCall ==
    /\ final_score = NotRun
    /\ final_score' = CalculateFinalScore(score_in.llm_score, score_in.similarity,
                                          score_in.skills_count)
    /\ UNCHANGED <<score_in, parseVars, vector_store, simVars, rankVars,
                   extractVars, apiVars>>

\* A call of JDMatcher._parse_llm_response on the response drawn.
ParseLlmResponseCall ==
    /\ parsed = NotRun
    /\ parsed' = ParseLlmResponse(response)
    /\ UNCHANGED <<response, scoreVars, vector_store, simVars, rankVars,
                   extractVars, apiVars>>

\* JDMatcher.create_jd_embedding(job_description): Chroma.from_documents embeds
\* the job description; when the embedding service fails, the exception leaves
\* vector_store as it was.
CreateJdEmbedding(embed) ==
    /\ vector_store' = IF embed.ok THEN Chroma(embed.vec) ELSE vector_store
    /\ UNCHANGED <<scoreVars, parseVars, simVars, rankVars, extractVars, apiVars>>

\* A call of JDMatcher.calculate_similarity, logged with the state it ran in.
CalculateSimilarityCall(embed) ==
    /\ Len(sim_log) < MaxSimCalls
    /\ sim_log' = Append(sim_log, [store |-> vector_store, embed |-> embed,
                                   out |-> CalculateSimilarity(vector_store, embed)])
    /\ UNCHANGED <<scoreVars, parseVars, vector_store, rankVars, extractVars, apiVars>>

\* A call of RankingEngine.rank_resumes on the batch, logged with the target
\* it ran against.
RankResumesCall ==
    /\ Len(runs) < MaxRuns
    /\ runs' = Append(runs, [store |-> vector_store,
                             out |-> RankResumes(resumes, vector_store)])
    /\ UNCHANGED <<scoreVars, parseVars, vector_store, simVars, resumes,
                   extractVars, apiVars>>

----------------------------------------------------------------------------
(* Specifications *)

IdleScore == score_in = NotRun /\ final_score = NotRun
IdleParse == response = <<>> /\ parsed = NotRun
IdleSim   == sim_log = <<>>
IdleRank  == resumes = <<>> /\ runs = <<>>
IdleExtract == text = <<>> /\ resume_data = NotRun
IdleApi   ==
    /\ current_jd = "" /\ jd_matcher = None /\ ranking_engine = None
    /\ set_calls = 0 /\ files = NotRun /\ api_log = <<>>

\* The ranking engine on a matcher fresh from its constructor.
Init ==
    /\ IdleScore /\ IdleParse /\ IdleSim /\ IdleExtract /\ IdleApi
    /\ vector_store = None
    /\ resumes \in Batches
    /\ runs = <<>>

Next ==
    \/ \E v \in RankJdEmbeddings : CreateJdEmbedding(EmbedOk(v))
    \/ CreateJdEmbedding(EmbedFailure)
    \/ RankResumesCall

Spec == Init /\ [][Next]_vars

\* A matcher fresh from its constructor.
InitMatcher ==
    /\ IdleScore /\ IdleParse /\ IdleRank /\ IdleExtract /\ IdleApi
    /\ vector_store = None
    /\ sim_log = <<>>

NextMatcher ==
    \/ \E v \in JdEmbeddings : CreateJdEmbedding(EmbedOk(v))
    \/ CreateJdEmbedding(EmbedFailure)
    \/ \E e \in EmbedResponses : CalculateSimilarityCall(e)

SpecMatcher == InitMatcher /\ [][NextMatcher]_vars

\* The judgment parser on every response of the bounds.
InitParse ==
    /\ IdleScore /\ IdleSim /\ IdleRank /\ IdleExtract /\ IdleApi
    /\ vector_store = None
    /\ response \in Responses
    /\ parsed = NotRun

NextParse == ParseLlmResponseCall

SpecParse == InitParse /\ [][NextParse]_vars

\* The score aggregator on every argument triple of the bounds.
InitScore ==
    /\ IdleParse /\ IdleSim /\ IdleRank /\ IdleExtract /\ IdleApi
    /\ vector_store = None
    /\ score_in \in [llm_score : LlmScores, similarity : Similarities,
                     skills_count : SkillCounts]
    /\ final_score = NotRun

NextScore == CalculateFinalScoreCall

SpecScore == InitScore /\ [][NextScore]_vars

-----------------------------------------------------------------------------
(* ResumeProcessor: a text is a sequence of characters *)

LowerCase == <<"a", "b", "c", "d", "e", "f", "g", "h", "i", "j", "k", "l", "m",
               "n", "o", "p", "q", "r", "s", "t", "u", "v", "w", "x", "y", "z">>
UpperCase == <<"A", "B", "C", "D", "E", "F", "G", "H", "I", "J", "K", "L", "M",
               "N", "O", "P", "Q", "R", "S", "T", "U", "V", "W", "X", "Y", "Z">>
Letters == {LowerCase[i] : i \in DOMAIN LowerCase} \cup {UpperCase[i] : i \in DOMAIN UpperCase}

\* The classes \s and \w of the regular expressions, and the punctuation that
\* _clean_text keeps.
SpaceChars == {" ", "\t", "\n"}
WordChars == Letters \cup Digits \cup {"_"}
KeptPunctuation == {".", ",", "!", "?", ";", ":"}

\* str.lower()
LowerChar(c) ==
    IF \E i \in DOMAIN UpperCase : UpperCase[i] = c
    THEN LowerCase[CHOOSE i \in DOMAIN UpperCase : UpperCase[i] = c]
    ELSE c
StrLower(t) == [i \in 1..Len(t) |-> LowerChar(t[i])]

\* t[p:].startswith(lit), positions counted from 1
At(t, p, lit) ==
    /\ p + Len(lit) - 1 <= Len(t)
    /\ \A k \in 1..Len(lit) : t[p + k - 1] = lit[k]

\* sub in t
In(sub, t) == \E p \in 1..(Len(t) - Len(sub) + 1) : At(t, p, sub)
\* The vocabulary of _extract_skills, in its order.
common_skills == <<
    <<"p", "y", "t", "h", "o", "n">>,
    <<"j", "a", "v", "a">>,
    <<"j", "a", "v", "a", "s", "c", "r", "i", "p", "t">>,
    <<"s", "q", "l">>,
    <<"m", "a", "c", "h", "i", "n", "e", " ", "l", "e", "a", "r", "n", "i",
      "n", "g">>,
    <<"a", "i">>,
    <<"d", "e", "e", "p", " ", "l", "e", "a", "r", "n", "i", "n", "g">>,
    <<"t", "e", "n", "s", "o", "r", "f", "l", "o", "w">>,
    <<"p", "y", "t", "o", "r", "c", "h">>,
    <<"r", "e", "a", "c", "t">>,
    <<"n", "o", "d", "e", ".", "j", "s">>,
    <<"a", "w", "s">>,
    <<"d", "o", "c", "k", "e", "r">>,
    <<"k", "u", "b", "e", "r", "n", "e", "t", "e", "s">>,
    <<"g", "i", "t">>,
    <<"r", "e", "s", "t", " ", "a", "p", "i">>,
    <<"m", "o", "n", "g", "o", "d", "b">>,
    <<"p", "o", "s", "t", "g", "r", "e", "s", "q", "l">>,
    <<"m", "y", "s", "q", "l">>,
    <<"h", "t", "m", "l">>,
    <<"c", "s", "s">>,
    <<"t", "y", "p", "e", "s", "c", "r", "i", "p", "t">>,
    <<"a", "n", "g", "u", "l", "a", "r">>,
    <<"v", "u", "e">>,
    <<"d", "j", "a", "n", "g", "o">>,
    <<"f", "l", "a", "s", "k">>,
    <<"f", "a", "s", "t", "a", "p", "i">>,
    <<"s", "p", "r", "i", "n", "g">>,
    <<"h", "i", "b", "e", "r", "n", "a", "t", "e">>,
    <<"j", "e", "n", "k", "i", "n", "s">>,
    <<"a", "n", "s", "i", "b", "l", "e">>,
    <<"t", "e", "r", "r", "a", "f", "o", "r", "m">>,
    <<"g", "c", "p">>,
    <<"a", "z", "u", "r", "e">>,
    <<"l", "i", "n", "u", "x">>,
    <<"u", "n", "i", "x">>,
    <<"b", "a", "s", "h">>,
    <<"s", "h", "e", "l", "l">>,
    <<"p", "o", "w", "e", "r", " ", "b", "i">>,
    <<"t", "a", "b", "l", "e", "a", "u">>,
    <<"e", "x", "c", "e", "l">>,
    <<"a", "g", "i", "l", "e">>,
    <<"s", "c", "r", "u", "m">>,
    <<"j", "i", "r", "a">>,
    <<"c", "o", "n", "f", "l", "u", "e", "n", "c", "e">>,
    <<"d", "e", "v", "o", "p", "s">>,
    <<"c", "i", "/", "c", "d">>>>

\* _extract_skills with the match made on the text as written.
ExtractSkillsCaseSensitive(t) ==
    SelectSeq(common_skills, LAMBDA skill : In(skill, t))

\* _extract_skills with the return inside the loop.
ExtractSkillsFirstOnly(t) ==
    LET text_lower == StrLower(t)
        found_skills == SelectSeq(common_skills, LAMBDA skill : In(skill, text_lower))
    IN  IF found_skills = <<>> THEN <<>> ELSE <<Head(found_skills)>>

\* _extract_skills: the vocabulary terms that are substrings of text.lower()
ExtractSkills(t) ==
    LET text_lower == StrLower(t)
    IN  SelectSeq(common_skills, LAMBDA skill : In(skill, text_lower))

\* The keywords of _extract_education, in their order, as written in the source.
education_keywords == <<
    <<"b", "a", "c", "h", "e", "l", "o", "r">>,
    <<"m", "a", "s", "t", "e", "r">>, <<"p", "h", "d">>,
    <<"b", "\\", ".", "t", "e", "c", "h">>,
    <<"m", "\\", ".", "t", "e", "c", "h">>, <<"b", "e">>, <<"m", "e">>,
    <<"b", "s", "c">>, <<"m", "s", "c">>, <<"m", "b", "b", "s">>,
    <<"b", "c", "a">>, <<"m", "c", "a">>,
    <<"a", "s", "s", "o", "c", "i", "a", "t", "e">>,
    <<"d", "i", "p", "l", "o", "m", "a">>>>

\* The text a keyword matches as a regular expression: "\." is a literal dot.
Unescape(keyword) == SelectSeq(keyword, LAMBDA c : c # "\\")

\* _extract_education: re.search(keyword, text, re.IGNORECASE) per keyword
ExtractEducation(t) ==
    LET text_lower == StrLower(t)
    IN  SelectSeq(education_keywords, LAMBDA keyword : In(Unescape(keyword), text_lower))

Year == <<"y", "e", "a", "r">>
Experience == <<"e", "x", "p", "e", "r", "i", "e", "n", "c", "e">>
NotSpecified ==
    <<"E", "x", "p", "e", "r", "i", "e", "n", "c", "e", " ", "n", "o", "t",
    " ", "s", "p", "e", "c", "i", "f", "i", "e", "d">>

\* The position after the longest run of characters of class that starts at p.
RECURSIVE SkipClass(_, _, _)
SkipClass(t, p, class) ==
    IF p <= Len(t) /\ t[p] \in class THEN SkipClass(t, p + 1, class) ELSE p

\* The position after an optional "s" at p.
OptionalS(t, p) == IF p <= Len(t) /\ t[p] = "s" THEN p + 1 ELSE p

MaxOf(S) == CHOOSE x \in S : \A y \in S : y <= x

\* Each pattern as a matcher: the position after the match that the regular
\* expression engine finds when it starts at position i (greedy quantifiers,
\* backtracking to the longest alternative that lets the rest match), or 0
\* when the pattern does not match at i.

\* (\d+)\s*years?[\s\w]*experience
Pattern1(t, i) ==
    LET digits_end == SkipClass(t, i, Digits)
        year_at == SkipClass(t, digits_end, SpaceChars)
        run_end == SkipClass(t, year_at + Len(Year), SpaceChars \cup WordChars)
        at == {j \in (year_at + Len(Year))..(run_end - 1) : At(t, j, Experience)}
    IN  IF digits_end > i /\ At(t, year_at, Year) /\ at # {}
        THEN MaxOf(at) + Len(Experience)
        ELSE 0

\* experience[\s\w]*(\d+)\s*years?
Pattern2(t, i) ==
    LET run_end == SkipClass(t, i + Len(Experience), SpaceChars \cup WordChars)
        YearAt(j) == SkipClass(t, SkipClass(t, j, Digits), SpaceChars)
        at == {j \in (i + Len(Experience))..(run_end - 1) :
                  t[j] \in Digits /\ At(t, YearAt(j), Year)}
    IN  IF At(t, i, Experience) /\ at # {}
        THEN OptionalS(t, YearAt(MaxOf(at)) + Len(Year))
        ELSE 0

\* (\d+)\s*\+?\s*years?
Pattern3(t, i) ==
    LET digits_end == SkipClass(t, i, Digits)
        plus_at == SkipClass(t, digits_end, SpaceChars)
        plus_end == IF plus_at <= Len(t) /\ t[plus_at] = "+" THEN plus_at + 1 ELSE plus_at
        year_at == SkipClass(t, plus_end, SpaceChars)
    IN  IF digits_end > i /\ At(t, year_at, Year)
        THEN OptionalS(t, year_at + Len(Year))
        ELSE 0

\* experience_patterns[k - 1] tried at position i
Pattern(k, t, i) ==
    CASE k = 1 -> Pattern1(t, i)
      [] k = 2 -> Pattern2(t, i)
      [] OTHER -> Pattern3(t, i)

\* re.search: the match at the leftmost position where the pattern matches,
\* as [start, end) positions; start = 0 when it matches nowhere.
Search(k, t) ==
    LET starts == {i \in 1..Len(t) : Pattern(k, t, i) # 0}
    IN  IF starts = {} THEN [start |-> 0, end |-> 0]
        ELSE LET i == CHOOSE i \in starts : \A j \in starts : i <= j
             IN  [start |-> i, end |-> Pattern(k, t, i)]

\* match.group(0)
Group0(t, match) == SubSeq(t, match.start, match.end - 1)

\* _extract_experience with the patterns listed from the loosest to the strictest.
ExtractExperienceLoosestFirst(t) ==
    LET text_lower == StrLower(t)
        m1 == Search(1, text_lower)
        m2 == Search(2, text_lower)
        m3 == Search(3, text_lower)
    IN  IF m3.start # 0 THEN Group0(text_lower, m3)
        ELSE IF m2.start # 0 THEN Group0(text_lower, m2)
        ELSE IF m1.start # 0 THEN Group0(text_lower, m1)
        ELSE NotSpecified

\* _extract_experience: the whole match of the first pattern, in the order of
\* the list, that matches text.lower() anywhere.
ExtractExperience(t) ==
    LET text_lower == StrLower(t)
        m1 == Search(1, text_lower)
        m2 == Search(2, text_lower)
        m3 == Search(3, text_lower)
    IN  IF m1.start # 0 THEN Group0(text_lower, m1)
        ELSE IF m2.start # 0 THEN Group0(text_lower, m2)
        ELSE IF m3.start # 0 THEN Group0(text_lower, m3)
        ELSE NotSpecified

\* re.sub(r'\s+', ' ', text)
RECURSIVE CollapseSpace(_)
CollapseSpace(t) ==
    IF t = <<>> THEN <<>>
    ELSE IF Head(t) \in SpaceChars
    THEN <<" ">> \o CollapseSpace(SubSeq(t, SkipClass(t, 1, SpaceChars), Len(t)))
    ELSE <<Head(t)>> \o CollapseSpace(Tail(t))

\* re.sub(r'[^\w\s.,!?;:]', '', text)
RemoveSpecial(t) ==
    SelectSeq(t, LAMBDA c : c \in WordChars \cup SpaceChars \cup KeptPunctuation)

\* str.strip()
StrStrip(t) ==
    LET first == SkipClass(t, 1, SpaceChars)
        ends == {j \in 0..Len(t) : \A k \in (j + 1)..Len(t) : t[k] \in SpaceChars}
    IN  SubSeq(t, first, CHOOSE j \in ends : \A k \in ends : j <= k)

\* _clean_text
CleanText(t) == StrStrip(RemoveSpecial(CollapseSpace(t)))

\* parse_resume
ParseResume(t) ==
    [raw_text     |-> t,
     skills       |-> ExtractSkills(t),
     experience   |-> ExtractExperience(t),
     education    |-> ExtractEducation(t),
     cleaned_text |-> CleanText(t)]

-----------------------------------------------------------------------------
(* Texts handed to parse_resume *)

TextAlphabet == {"a", "I", " ", "-", "."}
CharTexts == SeqsUpTo(TextAlphabet, MaxTextLen)

PhrasePlusYears == <<"5", "+", " ", "y", "e", "a", "r", "s">>
PhraseYears == <<"3", " ", "y", "e", "a", "r", "s">>
PhraseOfExperience ==
    <<" ", "o", "f", " ", "e", "x", "p", "e", "r", "i", "e", "n", "c", "e">>
PhraseExperience == <<"e", "x", "p", "e", "r", "i", "e", "n", "c", "e", " ">>
PhraseSpace == <<" ">>
PhraseNumber == <<"1", "2">>
Phrases == {PhrasePlusYears, PhraseYears, PhraseOfExperience,
            PhraseExperience, PhraseSpace, PhraseNumber}

RECURSIVE Concat(_)
Concat(parts) == IF parts = <<>> THEN <<>> ELSE Head(parts) \o Concat(Tail(parts))
PhraseTexts == {Concat(parts) : parts \in SeqsUpTo(Phrases, MaxPhrases)}

SampleText ==
    <<"I", " ", "h", "a", "v", "e", " ", "5", " ", "y", "e", "a", "r", "s",
    " ", "o", "f", " ", "e", "x", "p", "e", "r", "i", "e", "n", "c", "e",
    " ", "w", "i", "t", "h", " ", "P", "y", "t", "h", "o", "n", ",", " ",
    "J", "a", "v", "a", "S", "c", "r", "i", "p", "t", ",", " ", "a", "n",
    "d", " ", "m", "a", "c", "h", "i", "n", "e", " ", "l", "e", "a", "r",
    "n", "i", "n", "g", ".">>

\* Whitespace other than the space
TabbedText == <<"a", "\t", " ", "-", "\n", "\n", "I", "\t">>

Texts == CharTexts \cup PhraseTexts \cup {SampleText, TabbedText}

ParseResumeCall ==
    /\ resume_data = NotRun
    /\ resume_data' = ParseResume(text)
    /\ UNCHANGED <<text, scoreVars, parseVars, vector_store, simVars, rankVars, apiVars>>

InitExtract ==
    /\ IdleScore /\ IdleParse /\ IdleSim /\ IdleRank /\ IdleApi
    /\ vector_store = None
    /\ text \in Texts
    /\ resume_data = NotRun

NextExtract == ParseResumeCall

SpecExtract == InitExtract /\ [][NextExtract]_vars

----------------------------------------------------------------------------
(* main.py: the globals current_jd, jd_matcher, ranking_engine and the two   *)
(* handlers.  set_job_description has no await and runs as one step;        *)
(* process_resumes awaits file.read() once per upload, and other requests   *)
(* may be served at each await: it is one step from its start to its first  *)
(* await and one step from each await to the next (or to its response).     *)

\* The embedding service is a function of the text: the embedding of a job
\* description.
JdTexts == {"jdA", "jdB"}
EmbeddingOfJd(jd_text) == IF jd_text = "jdA" THEN <<1, 0>> ELSE <<3, 4>>

\* JDMatcher(api_key): the id tells the objects apart.
JDMatcher(id) == [id |-> id, vector_store |-> None]

\* RankingEngine(jd_matcher).  The engine holds the matcher it was given; a
\* matcher is not changed after the engine is built on it.
RankingEngine(matcher) == [jd_matcher |-> matcher]

\* What a set_job_description request meets: the constructor of JDMatcher
\* and the embedding call of create_jd_embedding each succeed or raise.
SetOutcomes == {"ok", "constructor raises", "create_jd_embedding raises"}

\* set_job_description({"text": jd_text}).  Every exception, the one for an
\* empty text included, becomes an HTTP 500 and leaves the assignments
\* already made in place.
SetJobDescription(jd_text, outcome) ==
    /\ set_calls < MaxSets
    /\ set_calls' = set_calls + 1
    /\ IF jd_text = ""
       THEN UNCHANGED <<current_jd, jd_matcher, ranking_engine>>
       ELSE /\ current_jd' = jd_text
            /\ jd_matcher' =
                   CASE outcome = "constructor raises" -> jd_matcher
                     [] outcome = "create_jd_embedding raises" -> JDMatcher(set_calls + 1)
                     [] OTHER -> [JDMatcher(set_calls + 1) EXCEPT
                                     !.vector_store = Chroma(EmbeddingOfJd(jd_text))]
            /\ ranking_engine' =
                   IF outcome = "ok" THEN RankingEngine(jd_matcher') ELSE ranking_engine
    /\ UNCHANGED <<files, api_log>>
    /\ UNCHANGED <<scoreVars, parseVars, vector_store, simVars, rankVars, extractVars>>

\* An upload: its filename, what extract_text makes of it (a text, or an
\* exception for an unsupported or unreadable file), and what the embedding
\* service and the language model answer for it.
Extracted(chars) == [ok |-> TRUE, text |-> chars]
ExtractFailure == [ok |-> FALSE, text |-> <<>>]
Upload(filename, extracted, embed, llm) ==
    [filename |-> filename, extracted |-> extracted, embed |-> embed, llm |-> llm]

\* The body of the loop for one upload: the resume appended to
\* processed_resumes, or nothing when extract_text or parse_resume raises
\* (the exception is printed).
ProcessFile(upload) ==
    IF upload.extracted.ok
    THEN <<Resume(upload.filename, Len(ParseResume(upload.extracted.text).skills),
                  upload.embed, upload.llm)>>
    ELSE <<>>

HTTPException(status_code, detail) == [status_code |-> status_code, detail |-> detail]
Success(ranked_resumes) ==
    [status_code     |-> 200,
     status          |-> "success",
     processed_count |-> Len(ranked_resumes),
     ranked_resumes  |-> ranked_resumes]

\* ranking_engine.rank_resumes(processed_resumes, current_jd) and the response
\* made of it; any exception becomes an HTTP 500 whose detail is its message.
RankAndRespond(processed_resumes) ==
    IF ranking_engine = None
    THEN HTTPException(500, <<"Error processing resumes: ", "AttributeError">>)
    ELSE LET out == RankResumes(processed_resumes, ranking_engine.jd_matcher.vector_store)
         IN  IF out.kind = "Raised"
             THEN HTTPException(500, <<"Error processing resumes: ", out.error>>)
             ELSE Success(out.ranked)

\* The request as answered: the uploads, the globals as read at the gate (a
\* refused request) or at the call of rank_resumes, and the response.
Answered(uploads, passed_gate, answer) ==
    [files          |-> uploads,
     passed_gate    |-> passed_gate,
     current_jd     |-> current_jd,
     jd_matcher     |-> jd_matcher,
     ranking_engine |-> ranking_engine,
     response       |-> answer]

\* process_resumes(files) from its start to its first await, or to its
\* response when it is refused or has no upload.
ProcessResumesStart(uploads) ==
    /\ files = NotRun
    /\ Len(api_log) < MaxRequests
    /\ IF jd_matcher = None \/ current_jd = ""
       THEN /\ api_log' = Append(api_log, Answered(uploads, FALSE,
                              HTTPException(400, <<"Job description not set. Please set JD first.">>)))
            /\ UNCHANGED files
       ELSE IF uploads = <<>>
       THEN /\ api_log' = Append(api_log, Answered(uploads, TRUE, RankAndRespond(<<>>)))
            /\ UNCHANGED files
       ELSE /\ files' = [uploads |-> uploads, read |-> 0, processed_resumes |-> <<>>]
            /\ UNCHANGED api_log
    /\ UNCHANGED <<current_jd, jd_matcher, ranking_engine, set_calls>>
    /\ UNCHANGED <<scoreVars, parseVars, vector_store, simVars, rankVars, extractVars>>

\* process_resumes from the await of an upload to the await of the next one,
\* or to its response after the last.
ProcessResumesResume ==
    /\ files # NotRun
    /\ LET file == files.uploads[files.read + 1]
           processed_resumes == files.processed_resumes \o ProcessFile(file)
       IN  IF files.read + 1 < Len(files.uploads)
           THEN /\ files' = [files EXCEPT !.read = files.read + 1,
                                          !.processed_resumes = processed_resumes]
                /\ UNCHANGED api_log
           ELSE /\ files' = NotRun
                /\ api_log' = Append(api_log, Answered(files.uploads, TRUE,
                                  RankAndRespond(processed_resumes)))
    /\ UNCHANGED <<current_jd, jd_matcher, ranking_engine, set_calls>>
    /\ UNCHANGED <<scoreVars, parseVars, vector_store, simVars, rankVars, extractVars>>

\* Uploads
UploadPool ==
    { Upload("u1", Extracted(<<"a", "I">>), EmbedOk(<<3, 4>>), LlmOk(Judgment("8", "0"))),
      Upload("u2", ExtractFailure,          EmbedOk(<<3, 4>>), LlmOk(Judgment("8", "0"))),
      Upload("u3", Extracted(<<"I", "a">>), EmbedFailure,      LlmOk(Judgment("8", "0"))),
      Upload("u4", Extracted(<<"a", "I">>), EmbedOk(<<1, 0>>), LlmFailure) }

UploadBatches == {b \in SeqsUpTo(UploadPool, MaxUploads) : Injective(b)}

\* The service as started: no job description, no matcher, no engine.
InitApi ==
    /\ IdleScore /\ IdleParse /\ IdleSim /\ IdleRank /\ IdleExtract
    /\ vector_store = None
    /\ current_jd = "" /\ jd_matcher = None /\ ranking_engine = None
    /\ set_calls = 0 /\ files = NotRun /\ api_log = <<>>

NextApi ==
    \/ \E jd_text \in JdTexts \cup {""}, outcome \in SetOutcomes :
           SetJobDescription(jd_text, outcome)
    \/ \E uploads \in UploadBatches : ProcessResumesStart(uploads)
    \/ ProcessResumesResume

SpecApi == InitApi /\ [][NextApi]_vars

----------------------------------------------------------------------------
(* Properties *)

Range(s) == {s[i] : i \in 1..Len(s)}
Filenames(s) == {s[i].filename : i \in 1..Len(s)}
PositionIn(batch, filename) == CHOOSE i \in 1..Len(batch) : batch[i].filename = filename

\* The resume raises in the loop of rank_resumes run against store.
Fails(resume, store) ==
    \/ CalculateSimilarity(store, resume.embed).kind # "Value"
    \/ AnalyzeFit(resume.llm).kind # "Verdict"

\* C1: when similarity or the judgment call or parse fails for one resume of a
\* batch ranked against a set target, rank_resumes still returns, and its list
\* holds exactly the resumes that did not fail.
C1_FailureIsolated ==
    \A k \in 1..Len(runs) :
        LET run    == runs[k]
            failed == {r \in Range(resumes) : Fails(r, run.store)}
        IN  (run.store.kind = "Chroma" /\ Cardinality(failed) = 1 /\ Len(resumes) >= 2)
            => /\ run.out.kind = "Returned"
               /\ Filenames(run.out.ranked)
                    = {r.filename : r \in Range(resumes) \ failed}

\* C2: _parse_llm_response returns a verdict with its four fields for every
\* response; it never raises.
C2_ParseTotal ==
    parsed # NotRun
    => /\ parsed.kind = "Verdict"
       /\ {"score", "strengths", "missing", "recommendation"} \subseteq DOMAIN parsed

\* C3: for the indented four-section template with the first bullet on the
\* label line, the verdict has the score of the Score: line, the text of the
\* Recommendation: line, and the bullet of the Strengths: line among strengths.
C3_TemplateParsed ==
    (parsed # NotRun /\ response \in TemplateResponses)
    => /\ parsed.kind = "Verdict"
       /\ parsed.score = 85
       /\ parsed.recommendation = <<"Yes">>
       /\ <<"Strong", " ", "Python", " ", "experience">> \in Range(parsed.strengths)

\* No resume of the run failed: the call returned, and no similarity was NaN.
NoFailure(run) ==
    /\ run.out.kind = "Returned"
    /\ \A i \in 1..Len(run.out.ranked) : ~run.out.ranked[i].final_score.nan

\* C4: when no resume fails, rank_resumes returns one entry per resume of the
\* batch, final_score never increases along the list, and entries of equal
\* final_score keep the order they had in the batch.
C4_SortedStablePermutation ==
    \A k \in 1..Len(runs) :
        NoFailure(runs[k])
        => LET ranked == runs[k].out.ranked
           IN  /\ Len(ranked) = Len(resumes)
               /\ Filenames(ranked) = Filenames(resumes)
               /\ \A i, j \in 1..Len(ranked) :
                    i < j =>
                      /\ ranked[i].final_score.v >= ranked[j].final_score.v
                      /\ ranked[i].final_score.v = ranked[j].final_score.v
                           => PositionIn(resumes, ranked[i].filename)
                                < PositionIn(resumes, ranked[j].filename)

\* A run that moved a resume to the front, ahead of two resumes that tie.
C4_Witness ==
    \E k \in 1..Len(runs) :
        /\ NoFailure(runs[k])
        /\ Len(runs[k].out.ranked) = 3
        /\ LET ranked == runs[k].out.ranked
           IN  /\ ranked[1].filename = resumes[3].filename
               /\ ranked[1].final_score.v > ranked[2].final_score.v
               /\ ranked[2].final_score.v = ranked[3].final_score.v

InRange(in) ==
    /\ in.llm_score \in 0..100
    /\ ~in.similarity.nan
    /\ in.similarity.v \in 0..SimScale
    /\ in.skills_count >= 0

\* C5: for a judgment score in 0..100, a similarity in [0, 1] and a skill count
\* >= 0, the composite lies in [0, 100].
C5_CompositeBounded ==
    (final_score # NotRun /\ InRange(score_in))
    => /\ ~final_score.nan
       /\ final_score.v >= 0
       /\ final_score.v <= 100 * 1000

\* The composite reaches 100 (and is computed from 1000 skills).
C5_Witness ==
    /\ final_score = Num(100 * 1000)
    /\ InRange(score_in)
    /\ score_in.skills_count = 1000

\* C6: the skill term saturates at 20 skills: from 20 skills on the composite
\* is that of 20 skills; below 20, more skills give a strictly larger composite.
C6_SkillSaturation ==
    (final_score # NotRun /\ ~score_in.similarity.nan)
    => LET f(n) == CalculateFinalScore(score_in.llm_score, score_in.similarity, n)
       IN  /\ score_in.skills_count >= SkillsCap => final_score = f(SkillsCap)
           /\ score_in.skills_count < SkillsCap
                => \A m \in SkillCounts :
                      m > score_in.skills_count => final_score.v < f(m).v

\* The composite of 1000 skills has been computed.
C6_Witness ==
    /\ final_score # NotRun
    /\ ~final_score.nan
    /\ score_in.skills_count = 1000

ResumeOf(entry) == CHOOSE r \in Range(resumes) : r.filename = entry.filename

\* C8: the final_score of an entry is the final_score its resume gets when it
\* is ranked alone against the same target, whatever else is in the batch and
\* wherever the resume stands in it.
C8_ScoreIndependent ==
    \A k \in 1..Len(runs) :
        runs[k].out.kind = "Returned"
        => \A i \in 1..Len(runs[k].out.ranked) :
              LET entry == runs[k].out.ranked[i]
                  alone == RankResumes(<<ResumeOf(entry)>>, runs[k].store)
              IN  /\ alone.kind = "Returned"
                  /\ entry.final_score = alone.ranked[1].final_score

\* A run that ranked three resumes with three different scores, the best of
\* them last in the batch.
C8_Witness ==
    \E k \in 1..Len(runs) :
        /\ NoFailure(runs[k])
        /\ Len(runs[k].out.ranked) = 3
        /\ LET ranked == runs[k].out.ranked
           IN  /\ ranked[1].filename = resumes[3].filename
               /\ ranked[1].final_score.v > ranked[2].final_score.v
               /\ ranked[2].final_score.v > ranked[3].final_score.v

\* The call computed the cosine of two vectors of which one has zero norm.
Degenerate(call) ==
    /\ call.store.kind = "Chroma"
    /\ call.embed.ok
    /\ (Norm(call.embed.vec) = 0 \/ Norm(call.store.embedding) = 0)

\* C9: a similarity call on a zero-norm resume or target vector ends in an
\* error; it returns no number, neither 0 nor NaN.
C9_DegenerateIsError ==
    \A k \in 1..Len(sim_log) :
        Degenerate(sim_log[k]) => sim_log[k].out.kind # "Value"

\* A calculate_similarity step: the log grows by the call.
SimilarityStep == Len(sim_log') = Len(sim_log) + 1
LastCall == sim_log'[Len(sim_log')]

\* C10: while create_jd_embedding has not completed on the matcher,
\* calculate_similarity raises the precondition error without calling the
\* embedding service; once it has completed, the matcher stays set and
\* calculate_similarity never raises the precondition error.
C10_PreconditionGate ==
    /\ [][SimilarityStep /\ vector_store.kind = "None"
            => /\ LastCall.out.kind = "PreconditionError"
               /\ ~LastCall.out.embed_called]_vars
    /\ [][SimilarityStep /\ vector_store.kind # "None"
            => LastCall.out.kind # "PreconditionError"]_vars
    /\ [][vector_store.kind # "None" => vector_store'.kind # "None"]_vars

\* A call refused before the target was set, then a call answered after it.
C10_Witness ==
    /\ Len(sim_log) = 2
    /\ sim_log[1].out.kind = "PreconditionError"
    /\ ~sim_log[1].out.embed_called
    /\ sim_log[1].embed.ok
    /\ sim_log[2].out.kind = "Value"
    /\ ~sim_log[2].out.value.nan

----------------------------------------------------------------------------
(* Properties of the judgment parser *)

\* C15: the score of every verdict _parse_llm_response returns is an integer
\* in 0..100.
C15_ScoreInRange ==
    (parsed # NotRun /\ parsed.kind = "Verdict") => parsed.score \in 0..100

\* The positions of the lines that begin (once stripped) with the label.
LabelLines(lines, label) ==
    {i \in 1..Len(lines) : StartsWith(Strip(lines[i]), <<label>>)}

Last(S) == CHOOSE i \in S : \A j \in S : j <= i

\* The window of a label line: the lines after position i up to the next line
\* that starts with a label, blank lines skipped, each line as it is stored.
RECURSIVE Window(_, _)
Window(lines, i) ==
    IF i + 1 > Len(lines) THEN <<>>
    ELSE LET line == Strip(lines[i + 1])
         IN  IF line = <<>> THEN Window(lines, i + 1)
             ELSE IF \E l \in Labels : line[1] = l THEN <<>>
             ELSE <<BulletOf(line)>> \o Window(lines, i + 1)

\* C16: the list stored for a section is the window of the very label line that
\* stored it; so in a verdict, strengths (missing) is the window of the last
\* Strengths: (Missing:) line, also when an identical label line came before.
C16_WindowOfOwnLabelLine ==
    (parsed # NotRun /\ parsed.kind = "Verdict")
    => /\ LabelLines(response, "Strengths:") # {}
            => parsed.strengths = Window(response, Last(LabelLines(response, "Strengths:")))
       /\ LabelLines(response, "Missing:") # {}
            => parsed.missing = Window(response, Last(LabelLines(response, "Missing:")))

\* A collected line without its whole leading marker and the whitespace after it.
WithoutMarker(line) ==
    IF StartsWith(line, Glyph) THEN Strip(SubSeq(line, Len(Glyph) + 1, Len(line)))
    ELSE IF StartsWith(line, <<"-">>) \/ StartsWith(line, <<"*">>) THEN Strip(Tail(line))
    ELSE line

\* C17: every stored bullet is a line of the response, stripped, without its
\* whole leading marker ('-', '*' or the glyph) and the whitespace after it.
C17_WholeMarkerRemoved ==
    (parsed # NotRun /\ parsed.kind = "Verdict")
    => \A b \in Range(parsed.strengths) \cup Range(parsed.missing) :
          \E i \in 1..Len(response) : b = WithoutMarker(Strip(response[i]))

-----------------------------------------------------------------------------
(* Properties of the resume processor *)

\* str.upper()
UpperChar(c) ==
    IF \E i \in DOMAIN LowerCase : LowerCase[i] = c
    THEN UpperCase[CHOOSE i \in DOMAIN LowerCase : LowerCase[i] = c]
    ELSE c
StrUpper(t) == [i \in 1..Len(t) |-> UpperChar(t[i])]

\* The text read twice, in upper case and then in lower case.
CaseDoubled(t) == StrUpper(t) \o StrLower(t)

\* C12: for every text, the skills extracted from the text equal the skills
\* extracted from text.upper() concatenated with text.lower().
C12_CaseDoubling ==
    resume_data # NotRun => resume_data.skills = ExtractSkills(CaseDoubled(text))

\* The term is spelled by an end of the text followed by a start of the text.
AcrossJunction(term, t) ==
    \E k \in 1..(Len(term) - 1) :
        /\ k <= Len(t)
        /\ At(StrLower(t), Len(t) - k + 1, SubSeq(term, 1, k))
        /\ At(StrLower(t), 1, SubSeq(term, k + 1, Len(term)))

\* C12, amended: the skills extracted from a text, from its upper case and
\* from its lower case are equal; the skills extracted from text.upper()
\* concatenated with text.lower() are those of the text, in the same order,
\* together with the vocabulary terms that are spelled across the junction
\* of the two copies.
C12_CaseDoublingUpToJunction ==
    resume_data # NotRun =>
        LET doubled == ExtractSkills(CaseDoubled(text))
        IN  /\ resume_data.skills = ExtractSkills(StrUpper(text))
            /\ resume_data.skills = ExtractSkills(StrLower(text))
            /\ resume_data.skills =
                   SelectSeq(doubled, LAMBDA term : term \in Range(resume_data.skills))
            /\ Range(resume_data.skills) \subseteq Range(doubled)
            /\ \A term \in Range(doubled) \ Range(resume_data.skills) :
                   AcrossJunction(term, text)

\* A text whose doubling spells a term that the text does not contain.
C12_Witness ==
    /\ resume_data # NotRun
    /\ Range(ExtractSkills(CaseDoubled(text))) \ Range(resume_data.skills) # {}

\* The three searches of _extract_experience on the text.
Found(k) == Search(k, StrLower(text)).start # 0
WholeMatch(k) == Group0(StrLower(text), Search(k, StrLower(text)))

\* C13: the phrase returned is the whole match of pattern 1 when pattern 1
\* matches anywhere, whatever else matches and wherever; the whole match of a
\* later pattern only when no earlier pattern matches anywhere; and the
\* sentinel only when no pattern matches.
C13_PatternPriority ==
    resume_data # NotRun =>
        /\ Found(1) => resume_data.experience = WholeMatch(1)
        /\ (~Found(1) /\ Found(2)) =>
               resume_data.experience = WholeMatch(2)
        /\ (~Found(1) /\ ~Found(2) /\ Found(3)) =>
               resume_data.experience = WholeMatch(3)
        /\ (resume_data.experience = NotSpecified) <=>
               (~Found(1) /\ ~Found(2) /\ ~Found(3))

\* Pattern 3 matches earlier in the text than pattern 1, and the match of
\* pattern 1 is returned.
C13_Witness ==
    /\ resume_data # NotRun
    /\ Found(1) /\ Found(3)
    /\ Search(3, StrLower(text)).start < Search(1, StrLower(text)).start
    /\ resume_data.experience = WholeMatch(1)
    /\ resume_data.experience # WholeMatch(3)

SkillPython == <<"p", "y", "t", "h", "o", "n">>
SkillJava == <<"j", "a", "v", "a">>
SkillJavascript == <<"j", "a", "v", "a", "s", "c", "r", "i", "p", "t">>
SkillMachineLearning ==
    <<"m", "a", "c", "h", "i", "n", "e", " ", "l", "e", "a", "r", "n", "i",
    "n", "g">>
FiveYears == <<"5", " ", "y", "e", "a", "r", "s">>

\* C14: for the sample sentence the skills are exactly python, javascript and
\* machine learning, and the experience phrase contains "5 years".
C14_SampleExact ==
    (resume_data # NotRun /\ text = SampleText) =>
        /\ Range(resume_data.skills) = {SkillPython, SkillJavascript, SkillMachineLearning}
        /\ In(FiveYears, resume_data.experience)

\* C14, amended: for the sample sentence the skills are python, java,
\* javascript and machine learning, in this order ("java" is a substring of
\* "javascript"), and the experience phrase contains "5 years".
C14_SampleWithJava ==
    (resume_data # NotRun /\ text = SampleText) =>
        /\ resume_data.skills =
               <<SkillPython, SkillJava, SkillJavascript, SkillMachineLearning>>
        /\ In(FiveYears, resume_data.experience)

C14_Witness == resume_data # NotRun /\ text = SampleText

\* C19: cleaning a cleaned text changes nothing.
C19_CleanIdempotent ==
    resume_data # NotRun => CleanText(resume_data.cleaned_text) = resume_data.cleaned_text

-----------------------------------------------------------------------------
(* Properties of the API *)

\* The upload fails at a stage: extraction (decoding included), similarity
\* or judgment.
FailsAtAStage(upload) == ~upload.extracted.ok \/ ~upload.embed.ok \/ ~upload.llm.ok

\* The filenames that the response names at all.
NamedIn(answer) ==
    IF answer.status_code = 200
    THEN {answer.ranked_resumes[k].filename : k \in 1..Len(answer.ranked_resumes)}
    ELSE {}

\* C11: in a processing run, for every document that fails at a stage the
\* run still completes and its result names that document.
C11_FailuresReported ==
    \A i \in 1..Len(api_log) :
        api_log[i].passed_gate =>
            \A k \in 1..Len(api_log[i].files) :
                FailsAtAStage(api_log[i].files[k]) =>
                    /\ api_log[i].response.status_code = 200
                    /\ api_log[i].files[k].filename \in NamedIn(api_log[i].response)

\* C18: every run that passes the gate ranks with an engine that is set,
\* whose matcher is the current jd_matcher, and whose embedding was created
\* from the current_jd that the judgment step is given.
C18_SingleTarget ==
    \A i \in 1..Len(api_log) :
        api_log[i].passed_gate =>
            /\ api_log[i].ranking_engine # None
            /\ api_log[i].ranking_engine.jd_matcher = api_log[i].jd_matcher
            /\ api_log[i].ranking_engine.jd_matcher.vector_store =
                   Chroma(EmbeddingOfJd(api_log[i].current_jd))

====
